---- MODULE Spec2Model ----
(***************************************************************************)
(* Model of src/radials.rs: radial(), the decoder of one Radial record of  *)
(* a DIPR precipitation product.  One action per statement of radial();    *)
(* the byte-cursor helpers of crate::utils are operators.                  *)
(***************************************************************************)
EXTENDS Integers, Sequences, FiniteSets, TLC

VARIABLES
    input,              \* the buffer handed to radial()
    pc,                 \* the statement of radial() that runs next
    tail,               \* the remaining buffer threaded through the reads
    azimuth,            \* f32 read at line 33
    elevation,          \* f32 read at line 36
    width,              \* f32 read at line 44
    num_bins,           \* i32 read at line 47
    capacity,           \* capacity requested at line 52 (-1: not allocated)
    precip_rate_bytes,  \* payload slice taken at line 53
    idx,                \* loop variable of line 54
    precip_rates,       \* the Vec<Velocity> being filled
    result,             \* what the call returned
    trace,              \* the statements executed so far, in order
    call,               \* 1: first call, 2: second call on a sibling buffer
    first               \* the result of the first call

vars == <<input, pc, tail, azimuth, elevation, width, num_bins, capacity,
          precip_rate_bytes, idx, precip_rates, result, trace, call, first>>

-----------------------------------------------------------------------------
(* Bounds of the explored inputs *)

MaxBins == 2        \* small records hold 0..MaxBins bins
MaxAttrLen == 1     \* the attributes string holds 0..MaxAttrLen bytes
MaxExtra == 1       \* bytes that follow the record in the buffer

-----------------------------------------------------------------------------
(* f32 values: sign, biased exponent and mantissa of the IEEE-754 word *)

F32(s, e, m) == [sign |-> s, exp |-> e, man |-> m]

F32IsNaN(x) == x.exp = 255 /\ x.man # 0

\* position of a non-NaN f32 on the real line (-0.0 and +0.0 coincide)
F32Key(x) == LET mag == x.exp * 8388608 + x.man
             IN  IF x.sign = 1 THEN 0 - mag ELSE mag

\* IEEE `a <= b` on f32: false as soon as one side is NaN
F32Le(a, b) == ~F32IsNaN(a) /\ ~F32IsNaN(b) /\ F32Key(a) <= F32Key(b)

\* f32::from_be_bytes
F32FromBe(b) == F32(b[1] \div 128,
                    (b[1] % 128) * 2 + (b[2] \div 128),
                    (b[2] % 128) * 65536 + b[3] * 256 + b[4])

\* i32::from_be_bytes (two's complement)
I32FromBe(b) == (IF b[1] >= 128 THEN b[1] - 256 ELSE b[1]) * 16777216
                + b[2] * 65536 + b[3] * 256 + b[4]

\* the bytes read in little-endian order
U16FromLe(b) == b[2] * 256 + b[1]

\* u16::from_be_bytes
U16FromBe(b) == b[1] * 256 + b[2]

\* `num_bins * 4` on i32 as a release build computes it, wrapping: the low
\* 30 bits of n shifted left by two (a debug build panics where this wraps,
\* which needs |n| >= 2^29)
I32Mul4(n) == LET low == n % 1073741824
              IN  IF low >= 536870912 THEN (low - 1073741824) * 4 ELSE low * 4

\* `x as u16`
AsU16(x) == x % 65536

RECURSIVE DivBits(_, _, _, _)
\* k more quotient bits of r/den below the bits already in m (r < den)
DivBits(r, den, m, k) ==
    IF k = 0 THEN [m |-> m, r |-> r]
    ELSE IF 2 * r >= den THEN DivBits(2 * r - den, den, 2 * m + 1, k - 1)
         ELSE DivBits(2 * r, den, 2 * m, k - 1)

RECURSIVE Pow2(_)
Pow2(k) == IF k = 0 THEN 1 ELSE 2 * Pow2(k - 1)

\* `v as f32 / 1000.` for a u16 v: the f32 nearest to v/1000, ties to even
U16AsF32Div1000(v) ==
    IF v = 0 THEN F32(0, 0, 0)
    ELSE LET e   == CHOOSE x \in -10..6 :
                       IF x >= 0 THEN 1000 * Pow2(x) <= v /\ v < 2000 * Pow2(x)
                       ELSE 1000 <= v * Pow2(0 - x) /\ v * Pow2(0 - x) < 2000
             num == IF e >= 0 THEN v ELSE v * Pow2(0 - e)
             den == IF e >= 0 THEN 1000 * Pow2(e) ELSE 1000
             q   == DivBits(num - den, den, 1, 23)
             up  == 2 * q.r > den \/ (2 * q.r = den /\ q.m % 2 = 1)
             m   == IF up THEN q.m + 1 ELSE q.m
         IN  IF m = 16777216 THEN F32(0, e + 128, 0)
             ELSE F32(0, e + 127, m - 8388608)

\* uom quantities, kept as the unit and the value they were built from
Angle(x) == [unit |-> "degree", value |-> x]
Velocity(x) == [unit |-> "inch_per_hour", value |-> x]

-----------------------------------------------------------------------------
(* crate::utils, the byte cursor and the range validator *)

Ok(v, t) == [ok |-> TRUE, value |-> v, tail |-> t]
UnexpectedEndOfData == [ok |-> FALSE, error |-> "UnexpectedEndOfData"]
RangeViolation(f, r) == [ok |-> FALSE, error |-> "RangeViolation",
                         field |-> f, record |-> r]

take_bytes(buf, n) ==
    IF Len(buf) < n THEN UnexpectedEndOfData
    ELSE Ok(SubSeq(buf, 1, n), SubSeq(buf, n + 1, Len(buf)))

take_float(buf) ==
    LET r == take_bytes(buf, 4)
    IN  IF r.ok THEN Ok(F32FromBe(r.value), r.tail) ELSE r

take_i32(buf) ==
    LET r == take_bytes(buf, 4)
    IN  IF r.ok THEN Ok(I32FromBe(r.value), r.tail) ELSE r

\* a string is its byte length as a 32-bit integer, then that many bytes;
\* the buffers explored declare lengths in 0..MaxAttrLen
take_string(buf) ==
    LET l == take_i32(buf)
    IN  IF l.ok THEN take_bytes(l.tail, l.value) ELSE l

\* check_range_inclusive::<f32>: RangeInclusive::contains on f32
check_range_inclusive_f32(range, value, field, name) ==
    IF F32Le(range.start, value) /\ F32Le(value, range.end)
    THEN [ok |-> TRUE]
    ELSE RangeViolation(field, name)

\* check_range_inclusive::<i32>
check_range_inclusive_i32(range, value, field, name) ==
    IF range.start <= value /\ value <= range.end
    THEN [ok |-> TRUE]
    ELSE RangeViolation(field, name)

-----------------------------------------------------------------------------
(* impl Radial *)

\* an elevation range that starts at the horizon
ELEVATION_RANGE_from_zero == [start |-> F32(0, 0, 0), end |-> F32(0, 132, 3407872)]
\* a bin range that admits -1
NUM_BINS_RANGE_from_minus_one == [start |-> -1, end |-> 1840]
\* a bin range with one digit too many
NUM_BINS_RANGE_to_18400 == [start |-> 0, end |-> 18400]

NAME == "radial"
AZIMUTH_RANGE == [start |-> F32(0, 0, 0), end |-> F32(0, 135, 3407872)]
ELEVATION_RANGE == [start |-> F32(1, 127, 0), end |-> F32(0, 132, 3407872)]
WIDTH_RANGE == [start |-> F32(0, 0, 0), end |-> F32(0, 128, 0)]
NUM_BINS_RANGE == [start |-> 0, end |-> 1840]


\* no reserved bytes skipped
SkipReservedBytes_none(buf) == take_bytes(buf, 0)

\* line 51: `take_bytes(tail, 4)`, the reserved bytes after the attributes
SkipReservedBytes(buf) == take_bytes(buf, 4)

\* the payload length without the slot size
PayloadLen_bins(n) == AsU16(n)

\* line 53: `(num_bins * 4) as u16`
PayloadLen(n) == AsU16(I32Mul4(n))

\* the slice of bin idx starting at the head of the slot
BinLo_slot(i) == i * 4

\* line 55: the bounds of the slice of bin idx
BinLo(i) == i * 4 + 2
BinHi(i) == i * 4 + 4

\* a loop that stops one bin early
LoopContinues_short(i, n) == i < n - 1

\* line 54: `for idx in 0..num_bins`
LoopContinues(i, n) == i < n

\* line 52: `num_bins as usize`; a negative i32 sign-extends past isize::MAX
\* and Vec::with_capacity panics ("capacity overflow")
CapacityOverflow(n) == n < 0

-----------------------------------------------------------------------------
(* The buffers radial() is called on *)

\* big-endian encoding of a non-negative 32-bit integer
BeBytes(n) == <<n \div 16777216, (n \div 65536) % 256, (n \div 256) % 256, n % 256>>

RECURSIVE Flatten(_)
Flatten(ss) == IF ss = <<>> THEN <<>> ELSE Head(ss) \o Flatten(Tail(ss))

SeqsUpTo(S, n) == UNION {[1..k -> S] : k \in 0..n}

\* 0.0, 90.0, 360.0, the f32 after 360.0, -0.0, NaN
AzimuthWire == {<<0, 0, 0, 0>>, <<66, 180, 0, 0>>, <<67, 180, 0, 0>>,
                <<67, 180, 0, 1>>, <<128, 0, 0, 0>>, <<127, 192, 0, 0>>}
\* 10.0, -1.0, 45.0, -1.1, the f32 after 45.0
ElevationWire == {<<65, 32, 0, 0>>, <<191, 128, 0, 0>>, <<66, 52, 0, 0>>,
                  <<191, 140, 204, 205>>, <<66, 52, 0, 1>>}
\* 0.5, 2.0, 0.0, the f32 after 2.0, the f32 before -0.0
WidthWire == {<<63, 0, 0, 0>>, <<64, 0, 0, 0>>, <<0, 0, 0, 0>>,
              <<64, 0, 0, 1>>, <<128, 0, 0, 1>>}
\* -1, 0, 1841, 16385 (16385 * 4 = 4 mod 2^16), 2^30 (2^30 * 4 = 0 mod 2^32)
HeaderBinsWire == {<<255, 255, 255, 255>>, <<0, 0, 0, 0>>, <<0, 0, 7, 49>>,
                   <<0, 0, 64, 1>>, <<64, 0, 0, 0>>}
\* rate slots: 1.0, 1.0 under other leading bytes, 0.0, 2.0
SlotWire == {<<0, 0, 3, 232>>, <<171, 205, 3, 232>>, <<0, 0, 0, 0>>,
             <<0, 0, 7, 208>>}
AttrBytes == {65, 255}
ReservedWire == {<<0, 0, 0, 0>>, <<222, 173, 7, 208>>}

NominalHeader == <<66, 180, 0, 0>> \o <<65, 32, 0, 0>> \o <<63, 0, 0, 0>>

EncodeString(s) == BeBytes(Len(s)) \o s

\* whole small records with a valid header
SmallRecords ==
    {NominalHeader \o BeBytes(Len(p)) \o EncodeString(a) \o r \o Flatten(p) :
        p \in SeqsUpTo(SlotWire, MaxBins), a \in SeqsUpTo(AttrBytes, MaxAttrLen),
        r \in ReservedWire}

\* every header, followed by an empty attributes string and the reserved bytes
HeaderRecords ==
    {az \o el \o w \o nb \o EncodeString(<<>>) \o <<0, 0, 0, 0>> :
        az \in AzimuthWire, el \in ElevationWire, w \in WidthWire,
        nb \in HeaderBinsWire}

\* the largest legal record: 1840 bins of 2.0 and 65.535 in turn
BigRecord ==
    NominalHeader \o BeBytes(1840) \o EncodeString(<<>>) \o <<0, 0, 0, 0>>
    \o [i \in 1..7360 |-> IF i % 8 = 3 THEN 7 ELSE IF i % 8 = 4 THEN 208
                          ELSE IF i % 8 \in {7, 0} THEN 255 ELSE 0]

\* a buffer cut short, and a buffer with bytes of value 9 after the record
Prefixes(f) == {SubSeq(f, 1, k) : k \in 0..Len(f)}
Extended(f) == {f \o [i \in 1..k |-> 9] : k \in 1..MaxExtra}

Inputs ==
    UNION {Prefixes(f) \cup Extended(f) : f \in SmallRecords}
    \cup UNION {{SubSeq(f, 1, k) : k \in {4, 8, 12, 16, Len(f)}} : f \in HeaderRecords}
    \cup {SubSeq(BigRecord, 1, Len(BigRecord) - 1), BigRecord}
    \cup Extended(BigRecord)

\* the buffers that differ from buf at most in the content of the attributes
\* string and in the reserved bytes after it
Siblings(buf) ==
    IF Len(buf) < 20 THEN {buf}
    ELSE LET l == I32FromBe(SubSeq(buf, 17, 20))
         IN  IF l \notin 0..MaxAttrLen THEN {buf}
             ELSE {[i \in 1..Len(buf) |->
                       IF i \in 21..(20 + l) THEN a[i - 20]
                       ELSE IF i \in (21 + l)..(24 + l) THEN r[i - 20 - l]
                       ELSE buf[i]] :
                   a \in [1..l -> AttrBytes], r \in ReservedWire}

-----------------------------------------------------------------------------
(* radial(), statement by statement *)

NoF32 == F32(0, 0, 0)
NoResult == [kind |-> "None"]

Entry(buf) ==
    /\ input = buf
    /\ pc = "take_azimuth"
    /\ tail = buf
    /\ azimuth = NoF32
    /\ elevation = NoF32
    /\ width = NoF32
    /\ num_bins = 0
    /\ capacity = -1
    /\ precip_rate_bytes = <<>>
    /\ idx = 0
    /\ precip_rates = <<>>
    /\ result = NoResult
    /\ trace = <<>>

Init == \E buf \in Inputs : Entry(buf) /\ call = 1 /\ first = NoResult

\* the elevation read before the azimuth is checked
After_read_ahead(stmt) ==
    CASE stmt = "take_azimuth"    -> "take_elevation"
      [] stmt = "take_elevation"  -> "check_azimuth"
      [] stmt = "check_azimuth"   -> "check_elevation"
      [] stmt = "check_elevation" -> "take_width"
      [] stmt = "take_width"      -> "check_width"
      [] stmt = "check_width"     -> "take_num_bins"
      [] stmt = "take_num_bins"   -> "check_num_bins"
      [] stmt = "check_num_bins"  -> "take_attributes"
      [] stmt = "take_attributes" -> "skip_reserved"
      [] stmt = "skip_reserved"   -> "with_capacity"
      [] stmt = "with_capacity"   -> "take_payload"
      [] stmt = "take_payload"    -> "bin_loop"

\* the statement that follows stmt when stmt does not return
After(stmt) ==
    CASE stmt = "take_azimuth"    -> "check_azimuth"
      [] stmt = "check_azimuth"   -> "take_elevation"
      [] stmt = "take_elevation"  -> "check_elevation"
      [] stmt = "check_elevation" -> "take_width"
      [] stmt = "take_width"      -> "check_width"
      [] stmt = "check_width"     -> "take_num_bins"
      [] stmt = "take_num_bins"   -> "check_num_bins"
      [] stmt = "check_num_bins"  -> "take_attributes"
      [] stmt = "take_attributes" -> "skip_reserved"
      [] stmt = "skip_reserved"   -> "with_capacity"
      [] stmt = "with_capacity"   -> "take_payload"
      [] stmt = "take_payload"    -> "bin_loop"

\* `?` on an Err: radial() returns it
Return(r) ==
    /\ pc' = "done"
    /\ result' = r

Err(e) == [kind |-> "Err", error |-> e]
Panic(msg) == [kind |-> "Panic", message |-> msg]

At(stmt) ==
    /\ pc = stmt
    /\ trace' = Append(trace, stmt)
    /\ UNCHANGED <<input, call, first>>

TakeAzimuth ==
    /\ At("take_azimuth")
    /\ LET r == take_float(input)
       IN  IF r.ok
           THEN azimuth' = r.value /\ tail' = r.tail /\ pc' = After(pc)
                /\ UNCHANGED result
           ELSE Return(Err(r)) /\ UNCHANGED <<azimuth, tail>>
    /\ UNCHANGED <<elevation, width, num_bins, capacity, precip_rate_bytes,
                   idx, precip_rates>>

CheckAzimuth ==
    /\ At("check_azimuth")
    /\ LET c == check_range_inclusive_f32(AZIMUTH_RANGE, azimuth, "azimuth", NAME)
       IN  IF c.ok THEN pc' = After(pc) /\ UNCHANGED result ELSE Return(Err(c))
    /\ UNCHANGED <<tail, azimuth, elevation, width, num_bins, capacity,
                   precip_rate_bytes, idx, precip_rates>>

TakeElevation ==
    /\ At("take_elevation")
    /\ LET r == take_float(tail)
       IN  IF r.ok
           THEN elevation' = r.value /\ tail' = r.tail /\ pc' = After(pc)
                /\ UNCHANGED result
           ELSE Return(Err(r)) /\ UNCHANGED <<elevation, tail>>
    /\ UNCHANGED <<azimuth, width, num_bins, capacity, precip_rate_bytes,
                   idx, precip_rates>>

CheckElevation ==
    /\ At("check_elevation")
    /\ LET c == check_range_inclusive_f32(ELEVATION_RANGE, elevation,
                                          "elevation", NAME)
       IN  IF c.ok THEN pc' = After(pc) /\ UNCHANGED result ELSE Return(Err(c))
    /\ UNCHANGED <<tail, azimuth, elevation, width, num_bins, capacity,
                   precip_rate_bytes, idx, precip_rates>>

TakeWidth ==
    /\ At("take_width")
    /\ LET r == take_float(tail)
       IN  IF r.ok
           THEN width' = r.value /\ tail' = r.tail /\ pc' = After(pc)
                /\ UNCHANGED result
           ELSE Return(Err(r)) /\ UNCHANGED <<width, tail>>
    /\ UNCHANGED <<azimuth, elevation, num_bins, capacity, precip_rate_bytes,
                   idx, precip_rates>>

CheckWidth ==
    /\ At("check_width")
    /\ LET c == check_range_inclusive_f32(WIDTH_RANGE, width, "width", NAME)
       IN  IF c.ok THEN pc' = After(pc) /\ UNCHANGED result ELSE Return(Err(c))
    /\ UNCHANGED <<tail, azimuth, elevation, width, num_bins, capacity,
                   precip_rate_bytes, idx, precip_rates>>

TakeNumBins ==
    /\ At("take_num_bins")
    /\ LET r == take_i32(tail)
       IN  IF r.ok
           THEN num_bins' = r.value /\ tail' = r.tail /\ pc' = After(pc)
                /\ UNCHANGED result
           ELSE Return(Err(r)) /\ UNCHANGED <<num_bins, tail>>
    /\ UNCHANGED <<azimuth, elevation, width, capacity, precip_rate_bytes,
                   idx, precip_rates>>

CheckNumBins ==
    /\ At("check_num_bins")
    /\ LET c == check_range_inclusive_i32(NUM_BINS_RANGE, num_bins,
                                          "num bins", NAME)
       IN  IF c.ok THEN pc' = After(pc) /\ UNCHANGED result ELSE Return(Err(c))
    /\ UNCHANGED <<tail, azimuth, elevation, width, num_bins, capacity,
                   precip_rate_bytes, idx, precip_rates>>

TakeAttributes ==
    /\ At("take_attributes")
    /\ LET r == take_string(tail)
       IN  IF r.ok THEN tail' = r.tail /\ pc' = After(pc) /\ UNCHANGED result
           ELSE Return(Err(r)) /\ UNCHANGED tail
    /\ UNCHANGED <<azimuth, elevation, width, num_bins, capacity,
                   precip_rate_bytes, idx, precip_rates>>

SkipReserved ==
    /\ At("skip_reserved")
    /\ LET r == SkipReservedBytes(tail)
       IN  IF r.ok THEN tail' = r.tail /\ pc' = After(pc) /\ UNCHANGED result
           ELSE Return(Err(r)) /\ UNCHANGED tail
    /\ UNCHANGED <<azimuth, elevation, width, num_bins, capacity,
                   precip_rate_bytes, idx, precip_rates>>

WithCapacity ==
    /\ At("with_capacity")
    /\ IF CapacityOverflow(num_bins)
       THEN Return(Panic("capacity overflow")) /\ UNCHANGED capacity
       ELSE capacity' = num_bins /\ pc' = After(pc) /\ UNCHANGED result
    /\ UNCHANGED <<tail, azimuth, elevation, width, num_bins,
                   precip_rate_bytes, idx, precip_rates>>

\* the payload taken, the buffer before it handed on
TakePayload_keep_tail ==
    /\ At("take_payload")
    /\ LET r == take_bytes(tail, PayloadLen(num_bins))
       IN  IF r.ok
           THEN precip_rate_bytes' = r.value /\ pc' = After(pc)
                /\ UNCHANGED <<result, tail>>
           ELSE Return(Err(r)) /\ UNCHANGED <<precip_rate_bytes, tail>>
    /\ UNCHANGED <<azimuth, elevation, width, num_bins, capacity, idx,
                   precip_rates>>

TakePayload ==
    /\ At("take_payload")
    /\ LET r == take_bytes(tail, PayloadLen(num_bins))
       IN  IF r.ok
           THEN precip_rate_bytes' = r.value /\ tail' = r.tail
                /\ pc' = After(pc) /\ UNCHANGED result
           ELSE Return(Err(r)) /\ UNCHANGED <<precip_rate_bytes, tail>>
    /\ UNCHANGED <<azimuth, elevation, width, num_bins, capacity, idx,
                   precip_rates>>

\* one iteration of `for idx in 0..num_bins`
BinLoop ==
    /\ At("bin_loop")
    /\ LoopContinues(idx, num_bins)
    /\ IF BinLo(idx) > BinHi(idx) \/ BinHi(idx) > Len(precip_rate_bytes)
       THEN Return(Panic("slice index")) /\ UNCHANGED <<idx, precip_rates>>
       ELSE LET buf == SubSeq(precip_rate_bytes, BinLo(idx) + 1, BinHi(idx))
            IN  IF Len(buf) # 2
                THEN Return(Panic("unwrap")) /\ UNCHANGED <<idx, precip_rates>>
                ELSE /\ precip_rates' = Append(precip_rates,
                                Velocity(U16AsF32Div1000(U16FromBe(buf))))
                     /\ idx' = idx + 1
                     /\ UNCHANGED <<pc, result>>
    /\ UNCHANGED <<tail, azimuth, elevation, width, num_bins, capacity,
                   precip_rate_bytes>>

\* the loop is over: Ok((Radial { .. }, tail))
ReturnOk ==
    /\ pc = "bin_loop"
    /\ ~LoopContinues(idx, num_bins)
    /\ trace' = Append(trace, "return_ok")
    /\ Return([kind |-> "Ok",
               radial |-> [azimuth |-> Angle(azimuth),
                           elevation |-> Angle(elevation),
                           width |-> Angle(width),
                           precip_rates |-> precip_rates],
               tail |-> tail])
    /\ UNCHANGED <<input, call, first, tail, azimuth, elevation, width,
                   num_bins, capacity, precip_rate_bytes, idx, precip_rates>>

\* the caller decodes a sibling buffer with a second call
CallAgain ==
    /\ pc = "done"
    /\ call = 1
    /\ call' = 2
    /\ first' = result
    /\ \E buf \in Siblings(input) :
          /\ input' = buf
          /\ pc' = "take_azimuth"
          /\ tail' = buf
    /\ azimuth' = NoF32
    /\ elevation' = NoF32
    /\ width' = NoF32
    /\ num_bins' = 0
    /\ capacity' = -1
    /\ precip_rate_bytes' = <<>>
    /\ idx' = 0
    /\ precip_rates' = <<>>
    /\ result' = NoResult
    /\ trace' = <<>>

Next ==
    \/ TakeAzimuth
    \/ CheckAzimuth
    \/ TakeElevation
    \/ CheckElevation
    \/ TakeWidth
    \/ CheckWidth
    \/ TakeNumBins
    \/ CheckNumBins
    \/ TakeAttributes
    \/ SkipReserved
    \/ WithCapacity
    \/ TakePayload
    \/ BinLoop
    \/ ReturnOk
    \/ CallAgain

Spec == Init /\ [][Next]_vars

-----------------------------------------------------------------------------
(* What the properties say about a buffer, read off its bytes *)

Done == pc = "done"
IsOk == result.kind = "Ok"
IsErr(e) == result.kind = "Err" /\ result.error.error = e
IsRangeViolation(f) == IsErr("RangeViolation") /\ result.error.field = f

\* the encodings among those explored that lie inside each range
LegalAzimuthWire == {<<0, 0, 0, 0>>, <<66, 180, 0, 0>>, <<67, 180, 0, 0>>,
                     <<128, 0, 0, 0>>}
LegalElevationWire == {<<65, 32, 0, 0>>, <<191, 128, 0, 0>>, <<66, 52, 0, 0>>}
LegalWidthWire == {<<63, 0, 0, 0>>, <<64, 0, 0, 0>>, <<0, 0, 0, 0>>}

FieldWire(buf, k) == SubSeq(buf, 4 * k - 3, 4 * k)
HasField(buf, k) == Len(buf) >= 4 * k
WireBins(buf) == I32FromBe(FieldWire(buf, 4))
WireAttrLen(buf) == I32FromBe(FieldWire(buf, 5))

LegalField(buf, k) ==
    CASE k = 1 -> FieldWire(buf, 1) \in LegalAzimuthWire
      [] k = 2 -> FieldWire(buf, 2) \in LegalElevationWire
      [] k = 3 -> FieldWire(buf, 3) \in LegalWidthWire
      [] k = 4 -> 0 <= WireBins(buf) /\ WireBins(buf) <= 1840

FieldName(k) == <<"azimuth", "elevation", "width", "num bins">>[k]

HeaderInRange(buf) == \A k \in 1..4 : HasField(buf, k) /\ LegalField(buf, k)
PresentFieldsLegal(buf) == \A k \in 1..4 : HasField(buf, k) => LegalField(buf, k)

\* the bytes of the record that starts buf, as far as buf declares them
RecordLen(buf) ==
    IF ~HasField(buf, 4) THEN 16
    ELSE IF ~HasField(buf, 5) THEN 20
    ELSE 16 + (4 + WireAttrLen(buf)) + 4 + WireBins(buf) * 4

PayloadStart(buf) == 16 + (4 + WireAttrLen(buf)) + 4

\* f32 quotients of the wire rates explored: 0.0, 1.0, 2.0, 65.535
ExpectedRate(b) ==
    CASE b = <<0, 0>>     -> F32(0, 0, 0)
      [] b = <<3, 232>>   -> F32(0, 127, 0)
      [] b = <<7, 208>>   -> F32(0, 128, 0)
      [] b = <<255, 255>> -> F32(0, 133, 201196)

\* the spec's end-to-end record: 90, 10, 0.5, two bins of 1.0 and 2.0
Scenario == NominalHeader \o BeBytes(2) \o BeBytes(0) \o <<0, 0, 0, 0>>
            \o <<0, 0, 3, 232>> \o <<0, 0, 7, 208>>

Canon == <<"take_azimuth", "check_azimuth", "take_elevation", "check_elevation",
           "take_width", "check_width", "take_num_bins", "check_num_bins",
           "take_attributes", "skip_reserved", "with_capacity", "take_payload">>

Last(s) == s[Len(s)]

-----------------------------------------------------------------------------

\* C1: when no read ran out of data, radial() returns Ok iff azimuth,
\* elevation, width and bin count all lie in their inclusive ranges, and
\* returns RangeViolation otherwise.
C1_OkIffHeaderInRange ==
    (Done /\ ~IsErr("UnexpectedEndOfData")) =>
        /\ IsOk <=> HeaderInRange(input)
        /\ ~HeaderInRange(input) => IsErr("RangeViolation")

\* every endpoint accepted at once: 360, -1, 2 and 0 bins
C1_Witness ==
    /\ Done /\ IsOk
    /\ FieldWire(input, 1) = <<67, 180, 0, 0>>
    /\ FieldWire(input, 2) = <<191, 128, 0, 0>>
    /\ FieldWire(input, 3) = <<64, 0, 0, 0>>
    /\ WireBins(input) = 0

\* C2: on success precip_rates holds exactly as many elements as the bin
\* count of the header.
C2_LengthIsBinCount ==
    (Done /\ IsOk) => Len(result.radial.precip_rates) = WireBins(input)

\* a record of two bins followed by one more byte
C2_Witness ==
    /\ Done /\ IsOk /\ WireBins(input) = 2
    /\ Len(result.radial.precip_rates) = 2
    /\ Len(result.tail) = 1

\* C3: on success element i of precip_rates is the big-endian u16 in bytes
\* 4i+2, 4i+3 of the payload divided by 1000, in wire order, whatever bytes
\* 4i and 4i+1 hold.
C3_RatesFromLowBytes ==
    (Done /\ IsOk) =>
        /\ DOMAIN result.radial.precip_rates = 1..WireBins(input)
        /\ \A i \in 1..WireBins(input) :
              LET at == PayloadStart(input) + 4 * (i - 1)
              IN  result.radial.precip_rates[i]
                    = Velocity(ExpectedRate(<<input[at + 3], input[at + 4]>>))

\* 1.0 read under non-zero leading bytes, then 2.0
C3_Witness ==
    /\ Done /\ IsOk /\ WireBins(input) = 2
    /\ SubSeq(input, PayloadStart(input) + 1, PayloadStart(input) + 8)
         = <<171, 205, 3, 232, 0, 0, 7, 208>>
    /\ result.radial.precip_rates
         = <<Velocity(F32(0, 127, 0)), Velocity(F32(0, 128, 0))>>

\* C4: when the fields present are in range and the buffer is shorter than
\* the record it declares, radial() returns UnexpectedEndOfData.
C4_TruncatedIsEndOfData ==
    (Done /\ PresentFieldsLegal(input) /\ Len(input) < RecordLen(input)) =>
        IsErr("UnexpectedEndOfData")

\* the payload of a two-bin record is one byte short
C4_Witness ==
    /\ Done /\ IsErr("UnexpectedEndOfData")
    /\ Last(trace) = "take_payload"
    /\ num_bins = 2
    /\ Len(input) = RecordLen(input) - 1

\* C5: on success the remaining buffer is the input after 16 header bytes,
\* the encoded attributes, 4 reserved bytes and 4 bytes per bin.
C5_RemainderIsSuffix ==
    (Done /\ IsOk) =>
        /\ RecordLen(input) <= Len(input)
        /\ result.tail = SubSeq(input, RecordLen(input) + 1, Len(input))

\* the end-to-end record leaves nothing
C5_Witness ==
    /\ Done /\ IsOk /\ input = Scenario /\ result.tail = <<>>
    /\ result.radial.precip_rates
         = <<Velocity(F32(0, 127, 0)), Velocity(F32(0, 128, 0))>>

\* C6: the statements run in the order of the source, the first failing
\* one ends the call, and the first out-of-range field is the one reported.
C6_StrictOrder ==
    /\ \A i \in 1..Len(Canon) : i <= Len(trace) => trace[i] = Canon[i]
    /\ Len(trace) > Len(Canon) =>
          \/ Last(trace) = "bin_loop"
          \/ Last(trace) = "return_ok" /\ Done /\ IsOk
    /\ (Done /\ result.kind = "Err") =>
          \/ /\ IsErr("UnexpectedEndOfData")
             /\ Last(trace) \in {"take_azimuth", "take_elevation", "take_width",
                                 "take_num_bins", "take_attributes",
                                 "skip_reserved", "take_payload"}
          \/ \E k \in 1..4 : /\ IsRangeViolation(FieldName(k))
                             /\ Len(trace) = 2 * k
    /\ Done =>
          \A k \in 1..4 :
             (/\ HasField(input, k) /\ ~LegalField(input, k)
              /\ \A j \in 1..(k - 1) : LegalField(input, j))
             => IsRangeViolation(FieldName(k)) /\ Len(trace) = 2 * k

\* azimuth out of range in a buffer of four bytes
C6_Witness ==
    /\ Done /\ Len(input) = 4 /\ FieldWire(input, 1) = <<67, 180, 0, 1>>
    /\ IsRangeViolation("azimuth")
    /\ trace = <<"take_azimuth", "check_azimuth">>

\* C7: the Vec is allocated only with a bin count in 0..1840 that passed
\* the range check, and with that capacity.
C7_AllocationAfterCheck ==
    /\ (pc = "with_capacity" \/ capacity # -1) =>
          /\ 0 <= num_bins /\ num_bins <= 1840
          /\ num_bins = WireBins(input)
          /\ \E i \in 1..Len(trace) : trace[i] = "check_num_bins"
    /\ capacity # -1 => capacity = num_bins
    /\ (HasField(input, 4) /\ ~LegalField(input, 4)) =>
          capacity = -1 /\ pc # "with_capacity"
    /\ result.kind # "Panic"

C7_Witness == pc = "take_payload" /\ capacity = 1840 /\ num_bins = 1840

\* C8: two buffers that differ only in the content of the attributes
\* string and in the reserved bytes decode to the same outcome.
C8_AttributesIgnored ==
    (Done /\ call = 2) =>
        /\ result.kind = first.kind
        /\ IsOk => result.radial = first.radial /\ result.tail = first.tail
        /\ result.kind = "Err" => result.error = first.error

\* the second buffer carries the other attribute byte and reserved bytes
C8_Witness ==
    /\ Done /\ call = 2 /\ IsOk /\ first.kind = "Ok"
    /\ WireAttrLen(input) = 1 /\ WireBins(input) = 1
    /\ SubSeq(input, 21, 25) = <<255, 222, 173, 7, 208>>
    /\ Len(result.tail) = 1

\* C9: for a validated bin count the length asked of take_bytes is
\* num_bins * 4: nothing wraps and nothing is cut off.
C9_PayloadLenExact ==
    /\ pc = "take_payload" =>
          /\ I32Mul4(num_bins) = num_bins * 4
          /\ PayloadLen(num_bins) = num_bins * 4
          /\ num_bins * 4 <= 7360
    /\ pc = "bin_loop" => Len(precip_rate_bytes) = WireBins(input) * 4

C9_Witness ==
    pc = "bin_loop" /\ num_bins = 1840 /\ Len(precip_rate_bytes) = 7360

\* C10: every iteration slices two bytes inside the payload, nothing
\* panics, and the loop ends after num_bins iterations.
C10_LoopInBounds ==
    /\ result.kind # "Panic"
    /\ pc = "bin_loop" =>
          /\ Len(precip_rates) = idx
          /\ idx <= num_bins
          /\ Len(trace) = Len(Canon) + idx
          /\ idx < num_bins =>
                /\ idx * 4 + 4 <= Len(precip_rate_bytes)
                /\ Len(SubSeq(precip_rate_bytes, idx * 4 + 3, idx * 4 + 4)) = 2
    /\ (Done /\ IsOk) => idx = num_bins /\ Len(trace) = Len(Canon) + num_bins + 1

\* the last iteration of a two-bin record reads up to the payload's end
C10_Witness ==
    /\ pc = "bin_loop" /\ idx = 1 /\ num_bins = 2
    /\ idx * 4 + 4 = Len(precip_rate_bytes)
    /\ Len(precip_rates) = 1

====
